---- MODULE Spec2Model ----
(***************************************************************************)
(* Model of refreshCsv.py: the refresh policy (calcRefresh), the unit      *)
(* enumerator (InventoryStation.dailyYearsIter), the orchestrator          *)
(* (update) and the fetch tasks (getOneFile) run by the thread pool.       *)
(*                                                                         *)
(* Conventions.  Python None is the empty tuple and a present integer y is *)
(* <<y>>.  Paths are strings, formatted as the f-strings format them.      *)
(* Time is whole epoch seconds; dates are local, tz seconds east of UTC.   *)
(***************************************************************************)
EXTENDS Integers, Sequences, FiniteSets, TLC

VARIABLES
    inventory,      \* rows of the station inventory file (after the header)
    force,          \* args.force of the running process
    now,            \* the wall clock, epoch seconds (timelib.time())
    tz,             \* UTC offset of the local time zone, in seconds
    rawWrites,      \* pieces the stream of a response is cut in: the raw
                    \*   writes it can take to reach the disk
    stationRefresh, \* the SqliteDict: localPath -> time of the last success
    dirs,           \* directories present on disk
    files,          \* local files: localPath -> what the file holds
    pc,             \* position of the process: import (module level, lines
                    \*   43-52), aborted (the import raised), then of update():
                    \*   station, year, today, time, policy, adjust, start,
                    \*   add, append, wait, result, returned, raised; then
                    \*   exited
    error,          \* the exception the process exited with ("None" if none)
    row,            \* index of the next inventory row to read
    station,        \* the station of the current row
    yearsLeft,      \* years dailyYearsIter has still to yield for it
    frame,          \* locals of the policy check under way: lastRefresh of
                    \*   line 118, then also today of line 66, then also
                    \*   the time of line 69, 73 or 76 (None outside one)
    tasks,          \* work items submitted to the pool, in submission order
    work_queue,     \* pool._work_queue: indices of tasks not yet started
    started,        \* pool threads started so far (Thread.start() done)
    numThreads,     \* len(pool._threads)
    idleSem,        \* value of pool._idle_semaphore
    unreleased,     \* pool threads through with a work item that have not
                    \*   yet released the idle semaphore
    responses,      \* requests the remote will still answer
    futures,        \* the module-level list of pending futures
    awaited,        \* the future popped by the wait loop (0 if none)
    run,            \* number of the current process execution
    log,            \* history: the decision taken for each enumerated unit
    prevForce,      \* history: args.force of the previous execution
    prevLog,        \* history: the decisions of the previous execution
    prevTasks,      \* history: how the tasks of the previous execution ended
    faults,         \* failures the environment will still inject
    args,           \* inputs of a direct call of a pure function
    result          \* its result: <<>> before the call, <<value>> after

vars == << inventory, force, now, tz, rawWrites, stationRefresh, dirs, files,
           pc, error,
           row, station, yearsLeft, frame, tasks, work_queue, started,
           numThreads, idleSem, unreleased, responses,
           futures, awaited, run, log, prevForce, prevLog, prevTasks,
           faults, args, result >>

procVars == << pc, error, row, station, yearsLeft, frame, futures, awaited,
              log >>
poolVars == << tasks, work_queue, started, numThreads, idleSem, unreleased >>
diskVars == << stationRefresh, dirs, files >>
histVars == << run, prevForce, prevLog, prevTasks >>
Running  == { "run", "get", "open", "write", "close", "set", "store",
              "return" }
callVars == << args, result >>

(***************************************************************************)
(* Values                                                                  *)
(***************************************************************************)
None == << >>
Some(v) == << v >>

Range(a, b) == [ i \in 1..(IF b > a THEN b - a ELSE 0) |-> a + i - 1 ]

(***************************************************************************)
(* Calendar: the year of the date that is d days after 1970-01-01          *)
(* (proleptic Gregorian calendar, as datetime.date computes it).           *)
(***************************************************************************)
SecondsPerDay == 86400

YearOfDay(d) ==
    LET z   == d + 719468
        era == z \div 146097
        doe == z - era * 146097
        yoe == (doe - doe \div 1460 + doe \div 36524 - doe \div 146096) \div 365
        doy == doe - (365 * yoe + yoe \div 4 - yoe \div 100)
        mp  == (5 * doy + 2) \div 153
    IN  yoe + era * 400 + (IF mp < 10 THEN 0 ELSE 1)

\* dt.date.today() when the clock reads t: the local calendar date, as the
\* number of days since 1970-01-01
date_today(t) == (t + tz) \div SecondsPerDay

\* calcRefresh with >= in place of > in its three comparisons
calcRefresh_orEqual(year, lastRefresh, today, time) ==
    LET threeDaysAgo == today - 3
    IN  IF year = YearOfDay(today) \/ year = YearOfDay(threeDaysAgo)
        THEN (IF time - lastRefresh >= 3600 THEN TRUE ELSE FALSE)
        ELSE IF year = YearOfDay(today) - 1
        THEN (IF time - lastRefresh >= 3600 * 24 * 30 THEN TRUE ELSE FALSE)
        ELSE IF time - lastRefresh >= 3600 * 24 * 365
        THEN TRUE
        ELSE FALSE

(***************************************************************************)
(* calcRefresh(year, lastRefresh), lines 65-79.  The function reads the    *)
(* clock twice: today is the date read at line 66, time is what            *)
(* timelib.time() returns afterwards at line 69, 73 or 76.                 *)
(***************************************************************************)
calcRefresh(year, lastRefresh, today, time) ==
    LET threeDaysAgo == today - 3
    IN  IF year = YearOfDay(today) \/ year = YearOfDay(threeDaysAgo)
        THEN (IF time - lastRefresh > 3600 THEN TRUE ELSE FALSE)
        ELSE IF year = YearOfDay(today) - 1
        THEN (IF time - lastRefresh > 3600 * 24 * 30 THEN TRUE ELSE FALSE)
        ELSE IF time - lastRefresh > 3600 * 24 * 365
        THEN TRUE
        ELSE FALSE

(***************************************************************************)
(* InventoryStation.dailyYearsIter, lines 39-41.  range() is evaluated at  *)
(* the first next(): with dlyLastYear None, None+1 raises TypeError before *)
(* anything is yielded.                                                    *)
(***************************************************************************)
dailyYearsIter(self) ==
    IF self.dlyFirstYear # None
    THEN IF self.dlyLastYear = None
         THEN [ raised |-> "TypeError", years |-> << >> ]
         ELSE [ raised |-> "None",
                years  |-> Range(self.dlyFirstYear[1], self.dlyLastYear[1] + 1) ]
    ELSE [ raised |-> "None", years |-> << >> ]

(***************************************************************************)
(* Names built by update(), lines 113, 116, 121-124                        *)
(***************************************************************************)
\* the partition directory without the station's own directory
dirname_thousandsOnly(st) == "stations/" \o ToString(st.stationId \div 1000)

dirname(st) ==
    "stations/" \o ToString(st.stationId \div 1000) \o "/" \o ToString(st.stationId)

\* a local path that leaves the year out
fname_noYear(st, year) == dirname(st) \o "/.csv.xz"

fname(st, year) == dirname(st) \o "/" \o ToString(year) \o ".csv.xz"

url(st, year) == [ stationID |-> st.stationId, Year |-> year ]

\* the store read with the current time as its default
StoreGet_defaultNow(key) ==
    IF key \in DOMAIN stationRefresh THEN stationRefresh[key] ELSE now

\* stationRefresh.get(fname, 0), line 118
StoreGet(key) == IF key \in DOMAIN stationRefresh THEN stationRefresh[key] ELSE 0

\* the policy consulted whatever args.force is
PolicyConsulted_always == TRUE

\* line 117: the store and the policy are consulted only without --force
PolicyConsulted == force = FALSE

(***************************************************************************)
(* The pool, line 43                                                       *)
(***************************************************************************)
max_workers == 8

Finished == { "done", "failed" }

InFlight == Cardinality({ i \in DOMAIN tasks : tasks[i].state \in Running })

\* a pool that starts a thread for every work item it finds no idle one for
AdjustThreadCount_unbounded(n) == TRUE

\* ThreadPoolExecutor._adjust_thread_count, called by pool.submit, once the
\* idle semaphore could not be taken: a thread is started while the pool has
\* fewer than max_workers
AdjustThreadCount(n) == n < max_workers

MaxFaults == 1

MaxResponses == 2

(***************************************************************************)
(* Module level, lines 43-52: the pool, the futures list, the thread-local *)
(* and the store are created when the script is loaded, before main().     *)
(***************************************************************************)
\* an import that goes on to main() although the store could not be opened
ModuleInit_ignoresOpenError ==
    /\ pc = "import"
    /\ pc' = "station"
    /\ \/ UNCHANGED << error, faults >>
       \/ /\ faults > 0
          /\ faults' = faults - 1
          /\ error' = "OperationalError"
    /\ UNCHANGED << row, station, yearsLeft, frame, futures, awaited, log >>
    /\ UNCHANGED << inventory, tz, rawWrites, force, now, diskVars, poolVars,
                    responses,
                    histVars, callVars >>

\* line 52 opens StationRefresh.db, or raises and the script ends there:
\* lines 129-141 are never reached
ModuleInit ==
    /\ pc = "import"
    /\ \/ /\ pc' = "station"
          /\ UNCHANGED << error, faults >>
       \/ /\ faults > 0
          /\ faults' = faults - 1
          /\ pc' = "aborted"
          /\ error' = "OperationalError"
    /\ UNCHANGED << row, station, yearsLeft, frame, futures, awaited, log >>
    /\ UNCHANGED << inventory, tz, rawWrites, force, now, diskVars, poolVars,
                    responses,
                    histVars, callVars >>

(***************************************************************************)
(* update(), lines 99-127                                                  *)
(***************************************************************************)
\* line 100/112-115: next row; getStation; start iterating its years
UpdateStation ==
    /\ pc = "station"
    /\ IF row > Len(inventory)
       THEN /\ pc' = "wait"
            /\ UNCHANGED << error, row, station, yearsLeft >>
       ELSE LET st == inventory[row]
                it == dailyYearsIter(st)
            IN  /\ row' = row + 1
                /\ station' = st
                /\ IF it.raised # "None"
                   THEN /\ pc' = "raised"
                        /\ error' = it.raised
                        /\ yearsLeft' = << >>
                   ELSE /\ pc' = IF it.years = << >> THEN "station" ELSE "year"
                        /\ error' = error
                        /\ yearsLeft' = it.years
    /\ UNCHANGED << frame, futures, awaited, log >>
    /\ UNCHANGED << inventory, tz, rawWrites, force, now, diskVars, poolVars,
                    responses, histVars,
                    faults, callVars >>

\* lines 121-125 up to the queue: the url and the work item of the unit at
\* the head of yearsLeft are built, and pool.submit puts the item on the
\* pool's queue
SubmitPut ==
    LET year == Head(yearsLeft)
        n    == Len(tasks) + 1
    IN  /\ tasks' = Append(tasks, [ url       |-> url(station, year),
                                    dirname   |-> dirname(station),
                                    localPath |-> fname(station, year),
                                    state     |-> "queued",
                                    exc       |-> "None",
                                    at        |-> 0,
                                    f         |-> "None",
                                    pos       |-> 0 ])
        /\ work_queue' = Append(work_queue, n)

\* the decision taken for the unit at the head of yearsLeft goes to the
\* history, with what was read for it (with --force: what would have been
\* read), and the policy check is over
Decided(present, lastRefresh, today, time, due) ==
    /\ log' = Append(log, [ localPath   |-> fname(station, Head(yearsLeft)),
                            year        |-> Head(yearsLeft),
                            force       |-> force,
                            present     |-> present,
                            lastRefresh |-> lastRefresh,
                            today       |-> today,
                            at          |-> time,
                            submitted   |-> due ])
    /\ frame' = None

\* the loop of line 115 moves on to the next year, or that of line 100 to the
\* next row
NextUnit ==
    /\ yearsLeft' = Tail(yearsLeft)
    /\ pc' = IF Tail(yearsLeft) = << >> THEN "station" ELSE "year"

\* lines 115-118: the store is read; with --force lines 121-125 follow at
\* once, up to the put on the pool's queue
UpdateUnit ==
    /\ pc = "year"
    /\ LET key == fname(station, Head(yearsLeft))
       IN  IF PolicyConsulted
           THEN /\ frame' = [ present     |-> key \in DOMAIN stationRefresh,
                              lastRefresh |-> StoreGet(key) ]
                /\ pc' = "today"
                /\ UNCHANGED << log, tasks, work_queue >>
           ELSE /\ Decided(key \in DOMAIN stationRefresh, StoreGet(key),
                           date_today(now), now, TRUE)
                /\ SubmitPut
                /\ pc' = "adjust"
    /\ UNCHANGED << error, row, station, yearsLeft, futures, awaited >>
    /\ UNCHANGED << started, numThreads, idleSem, unreleased, responses >>
    /\ UNCHANGED << inventory, tz, rawWrites, force, now, diskVars, histVars,
                    faults, callVars >>

\* lines 66-67, inside calcRefresh: the date is read
UpdateUnitToday ==
    /\ pc = "today"
    /\ frame' = [ present     |-> frame.present,
                  lastRefresh |-> frame.lastRefresh,
                  today       |-> date_today(now) ]
    /\ pc' = "time"
    /\ UNCHANGED << error, row, station, yearsLeft, futures, awaited, log >>
    /\ UNCHANGED << inventory, tz, rawWrites, force, now, diskVars, poolVars,
                    responses,
                    histVars, faults, callVars >>

\* line 69, 73 or 76, inside calcRefresh: the clock is read for the age
UpdateUnitTime ==
    /\ pc = "time"
    /\ frame' = [ present     |-> frame.present,
                  lastRefresh |-> frame.lastRefresh,
                  today       |-> frame.today,
                  time        |-> now ]
    /\ pc' = "policy"
    /\ UNCHANGED << error, row, station, yearsLeft, futures, awaited, log >>
    /\ UNCHANGED << inventory, tz, rawWrites, force, now, diskVars, poolVars,
                    responses,
                    histVars, faults, callVars >>

\* lines 68-79 and 119-125: calcRefresh compares and returns, and the unit
\* is skipped, or its work item is put on the pool's queue
UpdateUnitPolicy ==
    /\ pc = "policy"
    /\ LET due == calcRefresh(Head(yearsLeft), frame.lastRefresh,
                              frame.today, frame.time)
       IN  /\ Decided(frame.present, frame.lastRefresh, frame.today,
                      frame.time, due)
           /\ IF due
              THEN /\ SubmitPut
                   /\ pc' = "adjust"
                   /\ UNCHANGED yearsLeft
              ELSE /\ NextUnit
                   /\ UNCHANGED << tasks, work_queue >>
    /\ UNCHANGED << error, row, station, futures, awaited >>
    /\ UNCHANGED << started, numThreads, idleSem, unreleased, responses >>
    /\ UNCHANGED << inventory, tz, rawWrites, force, now, diskVars, histVars,
                    faults, callVars >>

\* line 125, pool.submit after the put: _adjust_thread_count tries the idle
\* semaphore, and returns when it could take it
SubmitAdjustThreadCount ==
    /\ pc = "adjust"
    /\ IF idleSem > 0
       THEN /\ idleSem' = idleSem - 1
            /\ pc' = "append"
       ELSE /\ idleSem' = idleSem
            /\ pc' = "start"
    /\ UNCHANGED << error, row, station, yearsLeft, frame, futures, awaited,
                    log >>
    /\ UNCHANGED << tasks, work_queue, started, numThreads, unreleased,
                    responses >>
    /\ UNCHANGED << inventory, tz, rawWrites, force, now, diskVars, histVars,
                    faults, callVars >>

\* line 125, pool.submit: the semaphore was not taken; len(pool._threads) is
\* tested and a thread is started, which runs from then on
SubmitThreadStart ==
    /\ pc = "start"
    /\ IF AdjustThreadCount(numThreads)
       THEN /\ started' = started + 1
            /\ pc' = "add"
       ELSE /\ started' = started
            /\ pc' = "append"
    /\ UNCHANGED << error, row, station, yearsLeft, frame, futures, awaited,
                    log >>
    /\ UNCHANGED << tasks, work_queue, numThreads, idleSem, unreleased,
                    responses >>
    /\ UNCHANGED << inventory, tz, rawWrites, force, now, diskVars, histVars,
                    faults, callVars >>

\* line 125, pool.submit: the thread that was started is added to
\* pool._threads
SubmitThreadsAdd ==
    /\ pc = "add"
    /\ numThreads' = numThreads + 1
    /\ pc' = "append"
    /\ UNCHANGED << error, row, station, yearsLeft, frame, futures, awaited,
                    log >>
    /\ UNCHANGED << tasks, work_queue, started, idleSem, unreleased, responses >>
    /\ UNCHANGED << inventory, tz, rawWrites, force, now, diskVars, histVars,
                    faults, callVars >>

\* line 125: pool.submit has returned and its future is appended to futures
UpdateFuturesAppend ==
    /\ pc = "append"
    /\ futures' = Append(futures, Len(tasks))
    /\ NextUnit
    /\ UNCHANGED << error, row, station, frame, awaited, log >>
    /\ UNCHANGED << inventory, tz, rawWrites, force, now, diskVars, poolVars,
                    responses,
                    histVars, faults, callVars >>

\* lines 99-127 hold no return statement and build no summary: what a call of
\* update() yields, once it returns, is None
UpdateReturns == None

\* line 126-127: while len(futures): futures.pop(0)
UpdateWait ==
    /\ pc = "wait"
    /\ IF futures = << >>
       THEN /\ pc' = "returned"
            /\ UNCHANGED << futures, awaited >>
       ELSE /\ pc' = "result"
            /\ awaited' = Head(futures)
            /\ futures' = Tail(futures)
    /\ UNCHANGED << error, row, station, yearsLeft, frame, log >>
    /\ UNCHANGED << inventory, tz, rawWrites, force, now, diskVars, poolVars,
                    responses, histVars,
                    faults, callVars >>

\* line 127: .result() blocks until the task is over and re-raises what it raised
UpdateResult ==
    /\ pc = "result"
    /\ tasks[awaited].state \in Finished
    /\ IF tasks[awaited].state = "failed"
       THEN /\ pc' = "raised"
            /\ error' = tasks[awaited].exc
       ELSE /\ pc' = "wait"
            /\ error' = error
    /\ awaited' = 0
    /\ UNCHANGED << row, station, yearsLeft, frame, futures, log >>
    /\ UNCHANGED << inventory, tz, rawWrites, force, now, diskVars, poolVars,
                    responses, histVars,
                    faults, callVars >>

(***************************************************************************)
(* getOneFile(url, dirname, localPath), lines 54-61, run by a pool thread. *)
(* Every statement is a step of its own, and so are the two halves of line *)
(* 61 (the clock read and the store write) and the raw writes inside lines *)
(* 59 and 60.  tasks[i].state is the step the task is at: queued (on the   *)
(* pool's queue), run (taken by a thread, before line 56), get (in the     *)
(* request of line 57), open (before line 58), write (in line 59), close   *)
(* (in line 60), set (before the clock read of line 61), store (before the *)
(* store write), return (before the pool thread sets the future), done,    *)
(* failed.  tasks[i].at is the time read at line 61 and tasks[i].f the     *)
(* LZMAFile of line 58: None, open, written (line 59 has returned) or      *)
(* closed.  The pool thread sets the task's future when getOneFile has     *)
(* returned or raised, and releases the idle semaphore after that.         *)
(*                                                                         *)
(* A response is compressed into one stream, which reaches the disk in     *)
(* raw writes, each at the offset of the handle making it; other threads   *)
(* run between two raw writes.  The stream is cut in the pieces            *)
(* 1..rawWrites at the places where a raw write can end, and the remote    *)
(* answers the requests for one unit with the same bytes.  tasks[i].pos is *)
(* the number of pieces the task's handle has put on the disk.  A local    *)
(* file holds the pieces `pieces` of a stream: that of an earlier          *)
(* execution ("old"), that of this execution ("new"), or of none: what the *)
(* file holds is no complete stream and is followed no further.            *)
(***************************************************************************)
Stream == 1..rawWrites

\* a file an earlier execution left complete
Old == [ stream |-> "old", pieces |-> Stream ]

\* a file left incomplete, or overwritten when a process ended
Invalid == [ stream |-> "none", pieces |-> { } ]

\* a file just opened for writing
Truncated == [ stream |-> "new", pieces |-> { } ]

\* what a file holds, in words: old, invalid, empty, new (the complete
\* stream), head (a start of the stream only), tail (the rest of the stream
\* behind a hole) or holes (any other pieces)
Holds(content) ==
    CASE content.stream = "old"  -> "old"
      [] content.stream = "none" -> "invalid"
      [] content.pieces = { }    -> "empty"
      [] content.pieces = Stream -> "new"
      [] \E q \in Stream : content.pieces = 1..q -> "head"
      [] \E q \in Stream : content.pieces = q..rawWrites -> "tail"
      [] OTHER -> "holes"

SetTask(i, st, ex, t, h, p) ==
    [ tasks EXCEPT ![i].state = st, ![i].exc = ex, ![i].at = t, ![i].f = h,
                   ![i].pos = p ]

\* the local files with the one at key holding content
Written(key, content) ==
    [ k \in DOMAIN files \cup { key } |-> IF k = key THEN content ELSE files[k] ]

\* a file after a raw write of the pieces a..b of the stream
WithPieces(content, a, b) ==
    [ stream |-> "new", pieces |-> content.pieces \cup (a..b) ]

\* the store after stationRefresh[key] = t
StoreSet(key, t) ==
    [ k \in DOMAIN stationRefresh \cup { key } |->
        IF k = key THEN t ELSE stationRefresh[k] ]

\* pool threads that wait for a work item
IdleThreads == started - InFlight - unreleased

\* A pool thread takes the head of the queue and calls getOneFile (line 55
\* prints the url)
getOneFile_begin(i) ==
    /\ work_queue # << >>
    /\ i = Head(work_queue)
    /\ IdleThreads > 0
    /\ work_queue' = Tail(work_queue)
    /\ tasks' = SetTask(i, "run", "None", 0, "None", 0)
    /\ UNCHANGED << started, numThreads, idleSem, unreleased, responses,
                    diskVars, faults >>
    /\ UNCHANGED << inventory, tz, rawWrites, force, now, procVars, histVars,
                    callVars >>

\* the request issued without the directory having been created
getOneFile_makedirs_skipped(i) ==
    /\ tasks[i].state = "run"
    /\ \/ /\ dirs' = dirs
          /\ tasks' = SetTask(i, "get", "None", 0, "None", 0)
          /\ UNCHANGED << unreleased, faults >>
       \/ /\ faults > 0
          /\ faults' = faults - 1
          /\ dirs' = dirs
          /\ tasks' = SetTask(i, "failed", "OSError", 0, "None", 0)
          /\ unreleased' = unreleased + 1
    /\ UNCHANGED << work_queue, started, numThreads, idleSem, responses,
                    stationRefresh, files >>
    /\ UNCHANGED << inventory, tz, rawWrites, force, now, procVars, histVars,
                    callVars >>

\* line 56: makedirs creates the directory (or finds it), and the request of
\* line 57 is issued; or makedirs raises and the task is over
getOneFile_makedirs(i) ==
    /\ tasks[i].state = "run"
    /\ \/ /\ dirs' = dirs \cup { tasks[i].dirname }
          /\ tasks' = SetTask(i, "get", "None", 0, "None", 0)
          /\ UNCHANGED << unreleased, faults >>
       \/ /\ faults > 0
          /\ faults' = faults - 1
          /\ dirs' = dirs
          /\ tasks' = SetTask(i, "failed", "OSError", 0, "None", 0)
          /\ unreleased' = unreleased + 1
    /\ UNCHANGED << work_queue, started, numThreads, idleSem, responses,
                    stationRefresh, files >>
    /\ UNCHANGED << inventory, tz, rawWrites, force, now, procVars, histVars,
                    callVars >>

\* the store entry set although the request raised
getOneFile_getRaises_setsStore(i) ==
    /\ tasks[i].state = "get"
    /\ faults > 0
    /\ faults' = faults - 1
    /\ stationRefresh' = StoreSet(tasks[i].localPath, now)
    /\ tasks' = SetTask(i, "failed", "RequestException", 0, "None", 0)
    /\ unreleased' = unreleased + 1
    /\ UNCHANGED << work_queue, started, numThreads, idleSem, responses, dirs,
                    files >>
    /\ UNCHANGED << inventory, tz, rawWrites, force, now, procVars, histVars,
                    callVars >>

\* the local file opened for writing before the request, so truncated when
\* the request raises
getOneFile_getRaises_truncates(i) ==
    /\ tasks[i].state = "get"
    /\ faults > 0
    /\ faults' = faults - 1
    /\ files' = Written(tasks[i].localPath, Truncated)
    /\ tasks' = SetTask(i, "failed", "RequestException", 0, "None", 0)
    /\ unreleased' = unreleased + 1
    /\ UNCHANGED << work_queue, started, numThreads, idleSem, responses,
                    stationRefresh, dirs >>
    /\ UNCHANGED << inventory, tz, rawWrites, force, now, procVars, histVars,
                    callVars >>

\* line 57 raises (timeout, connection error): nothing after it runs
getOneFile_getRaises(i) ==
    /\ tasks[i].state = "get"
    /\ faults > 0
    /\ faults' = faults - 1
    /\ tasks' = SetTask(i, "failed", "RequestException", 0, "None", 0)
    /\ unreleased' = unreleased + 1
    /\ UNCHANGED << work_queue, started, numThreads, idleSem, responses,
                    diskVars >>
    /\ UNCHANGED << inventory, tz, rawWrites, force, now, procVars, histVars,
                    callVars >>

\* line 57 returns the response
getOneFile_get(i) ==
    /\ tasks[i].state = "get"
    /\ responses > 0
    /\ responses' = responses - 1
    /\ tasks' = SetTask(i, "open", "None", 0, "None", 0)
    /\ UNCHANGED << work_queue, started, numThreads, idleSem, unreleased,
                    diskVars, faults >>
    /\ UNCHANGED << inventory, tz, rawWrites, force, now, procVars, histVars,
                    callVars >>

\* line 58 opens the local file for writing, which truncates it
getOneFile_open(i) ==
    /\ tasks[i].state = "open"
    /\ files' = Written(tasks[i].localPath, Truncated)
    /\ tasks' = SetTask(i, "write", "None", 0, "open", 0)
    /\ UNCHANGED << work_queue, started, numThreads, idleSem, unreleased,
                    responses, stationRefresh, dirs, faults >>
    /\ UNCHANGED << inventory, tz, rawWrites, force, now, procVars, histVars,
                    callVars >>

\* line 59 or 60, inside f.write or f.close: a raw write that is not the
\* last of the stream puts the next pieces on the disk at the handle's
\* offset; the call goes on
getOneFile_rawWrite(i) ==
    /\ tasks[i].state \in { "write", "close" }
    /\ \E q \in (tasks[i].pos + 1)..(rawWrites - 1) :
          /\ files' = Written(tasks[i].localPath,
                              WithPieces(files[tasks[i].localPath],
                                         tasks[i].pos + 1, q))
          /\ tasks' = SetTask(i, tasks[i].state, "None", 0, tasks[i].f, q)
    /\ UNCHANGED << work_queue, started, numThreads, idleSem, unreleased,
                    responses, stationRefresh, dirs, faults >>
    /\ UNCHANGED << inventory, tz, rawWrites, force, now, procVars, histVars,
                    callVars >>

\* line 59 returns: the content is compressed; what the compressor gave out
\* is on the disk by the raw writes made so far, or in the handle's buffer,
\* and the end of the stream is held back until the close
getOneFile_write(i) ==
    /\ tasks[i].state = "write"
    /\ tasks' = SetTask(i, "close", "None", 0, "written", tasks[i].pos)
    /\ UNCHANGED << work_queue, started, numThreads, idleSem, unreleased,
                    responses, diskVars, faults >>
    /\ UNCHANGED << inventory, tz, rawWrites, force, now, procVars, histVars,
                    callVars >>

\* line 60 returns: the last raw write of the close puts the pieces the
\* handle has not yet written on the disk, at the handle's offset
getOneFile_close(i) ==
    /\ tasks[i].state = "close"
    /\ files' = Written(tasks[i].localPath,
                        WithPieces(files[tasks[i].localPath],
                                   tasks[i].pos + 1, rawWrites))
    /\ tasks' = SetTask(i, "set", "None", 0, "closed", rawWrites)
    /\ UNCHANGED << work_queue, started, numThreads, idleSem, unreleased,
                    responses, stationRefresh, dirs, faults >>
    /\ UNCHANGED << inventory, tz, rawWrites, force, now, procVars, histVars,
                    callVars >>

\* the LZMAFile of a task whose line 58, 59 or 60 raises: none when the open
\* raised, left open when the write raised (line 60 is not reached), closed
\* when the close raised
AfterSinkRaises(i) ==
    CASE tasks[i].state = "open"  -> "None"
      [] tasks[i].state = "write" -> "open"
      [] OTHER                    -> "closed"

\* the pieces the handle of task i can have on the disk when its line 58, 59
\* or 60 raises: an open that raises has truncated nothing; a raw write that
\* raises can have written a part of what it was given, never the end of
\* the stream
SinkRaisesAt(i) ==
    IF tasks[i].state = "open"
    THEN { 0 }
    ELSE tasks[i].pos..(rawWrites - 1)

\* the local files when line 58, 59 or 60 of task i raises with the handle at
\* piece q
SinkRaisesLeaves(i, q) ==
    IF q = tasks[i].pos
    THEN files
    ELSE Written(tasks[i].localPath,
                 WithPieces(files[tasks[i].localPath], tasks[i].pos + 1, q))

\* the store entry set before the file is written, so also when that fails
getOneFile_sinkRaises_setsStore(i) ==
    /\ tasks[i].state \in { "open", "write", "close" }
    /\ faults > 0
    /\ faults' = faults - 1
    /\ stationRefresh' = StoreSet(tasks[i].localPath, now)
    /\ \E q \in SinkRaisesAt(i) :
          /\ files' = SinkRaisesLeaves(i, q)
          /\ tasks' = SetTask(i, "failed", "OSError", 0, AfterSinkRaises(i), q)
    /\ unreleased' = unreleased + 1
    /\ UNCHANGED << work_queue, started, numThreads, idleSem, responses, dirs >>
    /\ UNCHANGED << inventory, tz, rawWrites, force, now, procVars, histVars,
                    callVars >>

\* line 58, 59 or 60 raises: lzma.open fails, or a raw write of the write or
\* of the close fails, after it has put a part of its bytes on the disk or
\* none.  Line 61 is not run.  A handle the failed write leaves open lives
\* in the frame the task's exception holds, until the process exits
getOneFile_sinkRaises(i) ==
    /\ tasks[i].state \in { "open", "write", "close" }
    /\ faults > 0
    /\ faults' = faults - 1
    /\ \E q \in SinkRaisesAt(i) :
          /\ files' = SinkRaisesLeaves(i, q)
          /\ tasks' = SetTask(i, "failed", "OSError", 0, AfterSinkRaises(i), q)
    /\ unreleased' = unreleased + 1
    /\ UNCHANGED << work_queue, started, numThreads, idleSem, responses,
                    stationRefresh, dirs >>
    /\ UNCHANGED << inventory, tz, rawWrites, force, now, procVars, histVars,
                    callVars >>

\* line 61, its right-hand side: the clock is read
getOneFile_time(i) ==
    /\ tasks[i].state = "set"
    /\ tasks' = SetTask(i, "store", "None", now, tasks[i].f,
                     tasks[i].pos)
    /\ UNCHANGED << work_queue, started, numThreads, idleSem, unreleased,
                    responses, diskVars, faults >>
    /\ UNCHANGED << inventory, tz, rawWrites, force, now, procVars, histVars,
                    callVars >>

\* the task over without the store entry having been set
getOneFile_end_noStore(i) ==
    /\ tasks[i].state = "store"
    /\ tasks' = SetTask(i, "return", "None", tasks[i].at, tasks[i].f,
                     tasks[i].pos)
    /\ UNCHANGED << work_queue, started, numThreads, idleSem, unreleased,
                    responses, diskVars, faults >>
    /\ UNCHANGED << inventory, tz, rawWrites, force, now, procVars, histVars,
                    callVars >>

\* line 61, the assignment: the store entry is set to the time that was
\* read
getOneFile_end(i) ==
    /\ tasks[i].state = "store"
    /\ stationRefresh' = StoreSet(tasks[i].localPath, tasks[i].at)
    /\ tasks' = SetTask(i, "return", "None", tasks[i].at, tasks[i].f,
                     tasks[i].pos)
    /\ UNCHANGED << work_queue, started, numThreads, idleSem, unreleased,
                    responses, dirs, files, faults >>
    /\ UNCHANGED << inventory, tz, rawWrites, force, now, procVars, histVars,
                    callVars >>

\* getOneFile returns and the pool thread sets the task's future
getOneFile_return(i) ==
    /\ tasks[i].state = "return"
    /\ tasks' = SetTask(i, "done", "None", tasks[i].at, tasks[i].f,
                     tasks[i].pos)
    /\ unreleased' = unreleased + 1
    /\ UNCHANGED << work_queue, started, numThreads, idleSem, responses,
                    diskVars, faults >>
    /\ UNCHANGED << inventory, tz, rawWrites, force, now, procVars, histVars,
                    callVars >>

\* line 61 raises (the database cannot be written): the file is closed and
\* the store entry is as it was
getOneFile_storeRaises(i) ==
    /\ tasks[i].state = "store"
    /\ faults > 0
    /\ faults' = faults - 1
    /\ tasks' = SetTask(i, "failed", "sqlite3.Error", 0, tasks[i].f,
                     tasks[i].pos)
    /\ unreleased' = unreleased + 1
    /\ UNCHANGED << work_queue, started, numThreads, idleSem, responses,
                    diskVars >>
    /\ UNCHANGED << inventory, tz, rawWrites, force, now, procVars, histVars,
                    callVars >>

\* a pool thread whose work item is over releases the idle semaphore and
\* waits for the next item
WorkerRelease ==
    /\ unreleased > 0
    /\ unreleased' = unreleased - 1
    /\ idleSem' = idleSem + 1
    /\ UNCHANGED << tasks, work_queue, started, numThreads, responses,
                    diskVars, faults >>
    /\ UNCHANGED << inventory, tz, rawWrites, force, now, procVars, histVars,
                    callVars >>

Worker ==
    \/ \E i \in DOMAIN tasks :
        \/ getOneFile_begin(i)
        \/ getOneFile_makedirs(i)
        \/ getOneFile_getRaises(i)
        \/ getOneFile_get(i)
        \/ getOneFile_open(i)
        \/ getOneFile_rawWrite(i)
        \/ getOneFile_write(i)
        \/ getOneFile_close(i)
        \/ getOneFile_sinkRaises(i)
        \/ getOneFile_time(i)
        \/ getOneFile_end(i)
        \/ getOneFile_return(i)
        \/ getOneFile_storeRaises(i)
    \/ WorkerRelease

(***************************************************************************)
(* The environment: the clock, the end of the process and the next         *)
(* execution of the program                                                *)
(***************************************************************************)
\* the clock moves forward to a later sampled instant
Tick(instants) ==
    /\ \E t \in instants : t > now /\ now' = t
    /\ UNCHANGED << inventory, tz, rawWrites, force, procVars, poolVars,
                    responses,
                    diskVars, histVars, faults, callVars >>

\* the local files a failed write left a handle open on
LeftOpen ==
    { tasks[i].localPath :
        i \in { j \in DOMAIN tasks :
                  tasks[j].state = "failed" /\ tasks[j].f = "open" } }

\* The process ends once update() is over (or the import raised) and the
\* interpreter has joined the pool threads, which drain the queue first.
\* The objects still alive are then finalized: a handle left open is closed,
\* and what its close writes at offset 0 is no stream of the response
ProcessExit ==
    /\ pc \in { "returned", "raised", "aborted" }
    /\ \A i \in DOMAIN tasks : tasks[i].state \in Finished
    /\ unreleased = 0
    /\ pc' = "exited"
    /\ files' = [ k \in DOMAIN files |->
                    IF k \in LeftOpen THEN Invalid ELSE files[k] ]
    /\ UNCHANGED << error, row, station, yearsLeft, frame, futures, awaited,
                    log >>
    /\ UNCHANGED << inventory, tz, rawWrites, force, now, stationRefresh,
                    dirs, poolVars,
                    responses, histVars, faults, callVars >>

MaxRuns == 2

\* a local file as the next execution finds it: complete or not
Stale(content) ==
    IF content.stream # "none" /\ content.pieces = Stream THEN Old ELSE Invalid

\* the next execution finds an empty store: the writes were not committed
NewProcess_storeLost ==
    /\ pc = "exited"
    /\ run < MaxRuns
    /\ run' = run + 1
    /\ force' \in BOOLEAN
    /\ prevForce' = force
    /\ prevLog' = [ j \in DOMAIN log |->
                      [ localPath |-> log[j].localPath,
                        force     |-> log[j].force,
                        submitted |-> log[j].submitted,
                        today     |-> log[j].today,
                        at        |-> log[j].at ] ]
    /\ prevTasks' = [ i \in DOMAIN tasks |->
                        [ localPath |-> tasks[i].localPath,
                          state     |-> tasks[i].state,
                          at        |-> tasks[i].at ] ]
    /\ pc' = "import"
    /\ error' = "None"
    /\ row' = 1
    /\ station' = None
    /\ yearsLeft' = << >>
    /\ frame' = None
    /\ futures' = << >>
    /\ awaited' = 0
    /\ log' = << >>
    /\ tasks' = << >>
    /\ work_queue' = << >>
    /\ started' = 0
    /\ numThreads' = 0
    /\ idleSem' = 0
    /\ unreleased' = 0
    /\ files' = [ k \in DOMAIN files |-> Stale(files[k]) ]
    /\ stationRefresh' = << >>
    /\ UNCHANGED << inventory, tz, rawWrites, now, dirs, responses, faults,
                    callVars >>

\* The program is run again, with or without --force.  Module state is
\* rebuilt (lines 43-52), the disk and the store persist.
NewProcess ==
    /\ pc = "exited"
    /\ run < MaxRuns
    /\ run' = run + 1
    /\ force' \in BOOLEAN
    /\ prevForce' = force
    /\ prevLog' = [ j \in DOMAIN log |->
                      [ localPath |-> log[j].localPath,
                        force     |-> log[j].force,
                        submitted |-> log[j].submitted,
                        today     |-> log[j].today,
                        at        |-> log[j].at ] ]
    /\ prevTasks' = [ i \in DOMAIN tasks |->
                        [ localPath |-> tasks[i].localPath,
                          state     |-> tasks[i].state,
                          at        |-> tasks[i].at ] ]
    /\ pc' = "import"
    /\ error' = "None"
    /\ row' = 1
    /\ station' = None
    /\ yearsLeft' = << >>
    /\ frame' = None
    /\ futures' = << >>
    /\ awaited' = 0
    /\ log' = << >>
    /\ tasks' = << >>
    /\ work_queue' = << >>
    /\ started' = 0
    /\ numThreads' = 0
    /\ idleSem' = 0
    /\ unreleased' = 0
    /\ files' = [ k \in DOMAIN files |-> Stale(files[k]) ]
    /\ UNCHANGED << inventory, tz, rawWrites, now, stationRefresh, dirs,
                    responses,
                    faults, callVars >>

(***************************************************************************)
(* Initial states                                                          *)
(***************************************************************************)
Station(id, first, last) ==
    [ stationId |-> id, dlyFirstYear |-> first, dlyLastYear |-> last ]

\* every unit (station, year) of an inventory, rows that cannot be enumerated
\* left out
UnitsOf(inv) ==
    UNION { { << inv[r], dailyYearsIter(inv[r]).years[j] >> :
                j \in DOMAIN dailyYearsIter(inv[r]).years } : r \in DOMAIN inv }

NewYear2026 == 20454 * SecondsPerDay

\* fetches of earlier executions: 2025-12-31 18:00 UTC for the units of 2025,
\* 31 days before that for the units of other years
Earlier == NewYear2026 - 6 * 3600

LongBefore == Earlier - 31 * SecondsPerDay

FetchedAt(year) == IF year = 2025 THEN Earlier ELSE LongBefore

\* sampled instants: 2025-12-31 20:00 UTC, and 2026-01-02 20:00 UTC, when
\* 2025 is still under the one-hour window and 2024 is an older year
Instants == { NewYear2026 - 4 * 3600,
              NewYear2026 + 2 * SecondsPerDay - 4 * 3600 }

\* local time zones: Toronto (EST), UTC, Auckland (NZDT)
TimeZones == { 0 - 5 * 3600, 0, 13 * 3600 }

Inventories ==
    { << Station(71957, Some(2024), Some(2025)) >>,
      << Station(5097, None, None),
         Station(71957, Some(2025), Some(2025)),
         Station(71957, Some(2025), Some(2025)) >>,
      << Station(5097, Some(2025), Some(2025)),
         Station(71957, Some(2025), None) >> }

\* the inventories of a single execution: those, and two stations in
\* different directories with one year each
InventoriesOneRun ==
    Inventories \cup
    { << Station(5097, Some(2025), Some(2025)),
         Station(71957, Some(2025), Some(2025)) >> }

ProcessStart ==
    /\ pc = "import"
    /\ error = "None"
    /\ row = 1
    /\ station = None
    /\ yearsLeft = << >>
    /\ frame = None
    /\ futures = << >>
    /\ awaited = 0
    /\ log = << >>
    /\ tasks = << >>
    /\ work_queue = << >>
    /\ started = 0
    /\ numThreads = 0
    /\ idleSem = 0
    /\ unreleased = 0
    /\ run = 1
    /\ prevForce = FALSE
    /\ prevLog = << >>
    /\ prevTasks = << >>

\* the disk left by earlier executions, which fetched some of the units
DiskAfter(fetched) ==
    /\ stationRefresh =
          [ k \in { fname(u[1], u[2]) : u \in fetched } |->
              FetchedAt((CHOOSE u \in fetched : fname(u[1], u[2]) = k)[2]) ]
    /\ files = [ k \in { fname(u[1], u[2]) : u \in fetched } |-> Old ]
    /\ dirs = { dirname(u[1]) : u \in fetched }

\* the start of a first execution over one of inventories, on 2025-12-31 at
\* 15:00 in Toronto, with a remote that will answer budget requests, each
\* with a stream of so many pieces
Start(inventories, budget, pieces) ==
    /\ inventory \in inventories
    /\ rawWrites = pieces
    /\ force \in BOOLEAN
    /\ now = NewYear2026 - 4 * 3600
    /\ tz = 0 - 5 * 3600
    /\ \E fetched \in SUBSET UnitsOf(inventory) : DiskAfter(fetched)
    /\ ProcessStart
    /\ faults = MaxFaults
    /\ responses = budget
    /\ args = << >>
    /\ result = << >>

\* the main thread: the import and update()
MainThread ==
    \/ ModuleInit
    \/ UpdateStation
    \/ UpdateUnit
    \/ UpdateUnitToday
    \/ UpdateUnitTime
    \/ UpdateUnitPolicy
    \/ SubmitAdjustThreadCount
    \/ SubmitThreadStart
    \/ SubmitThreadsAdd
    \/ UpdateFuturesAppend
    \/ UpdateWait
    \/ UpdateResult

(***************************************************************************)
(* One execution of the program, from the import to the end of the process *)
(***************************************************************************)
\* the pieces the stream of a response is cut in
MaxRawWrites == 2

InitRun == Start(InventoriesOneRun, MaxResponses, MaxRawWrites)

NextRun ==
    \/ MainThread
    \/ Worker
    \/ Tick(Instants)
    \/ ProcessExit

SpecRun == InitRun /\ [][NextRun]_vars

(***************************************************************************)
(* Executions of the program one after another, on the disk and the store  *)
(* the earlier ones left, with streams of two pieces                       *)
(***************************************************************************)
MaxResponsesOverRuns == 1

Init == Start(Inventories, MaxResponsesOverRuns, 2)

Next ==
    \/ NextRun
    \/ NewProcess

Spec == Init /\ [][Next]_vars

(***************************************************************************)
(* One execution over a station with more daily years than the pool has    *)
(* threads, on an empty disk.  One task ends while the others wait for the *)
(* remote: it fails, or its request is answered with a stream of two       *)
(* pieces.                                                                 *)
(***************************************************************************)
PoolYears == 9

InitPool ==
    /\ inventory = << Station(71957, Some(2026 - PoolYears), Some(2025)) >>
    /\ force = FALSE
    /\ now = NewYear2026 - 4 * 3600
    /\ tz = 0
    /\ rawWrites = 2
    /\ DiskAfter({})
    /\ ProcessStart
    /\ faults \in { 0, 1 }
    /\ responses = 1 - faults
    /\ args = << >>
    /\ result = << >>

NextPool ==
    \/ MainThread
    \/ Worker

SpecPool == InitPool /\ [][NextPool]_vars

(***************************************************************************)
(* One execution under fair scheduling: the main thread keeps running      *)
(* while it has a step to take, and so do the pool threads; a request that *)
(* was issued returns or raises.                                           *)
(***************************************************************************)
FairScheduling == WF_vars(MainThread) /\ WF_vars(Worker)

SpecLive == InitRun /\ [][NextPool]_vars /\ FairScheduling

(***************************************************************************)
(* Direct calls of the two pure functions, over sampled arguments          *)
(***************************************************************************)
Quiet ==
    /\ inventory = << >>
    /\ rawWrites = 1
    /\ force = FALSE
    /\ DiskAfter({})
    /\ ProcessStart
    /\ faults = 0
    /\ responses = 0
    /\ result = << >>

PolicySpan == 2

PolicyYears == (2025 - PolicySpan)..(2026 + PolicySpan)

\* 2025-12-31 20:00, 2026-01-01 00:00:00, 2026-01-03 23:59:59,
\* 2026-01-04 00:00:00, 2026-06-30 00:00:00
PolicyNow == { NewYear2026 - 4 * 3600,
               NewYear2026,
               NewYear2026 + 3 * SecondsPerDay - 1,
               NewYear2026 + 3 * SecondsPerDay,
               NewYear2026 + 180 * SecondsPerDay }

\* ages of the store entry, on both sides of each window
PolicyAges == { 0, 1, 3599, 3600, 3601, 2592000 - 1, 2592000, 2592000 + 1,
                31536000 - 1, 31536000, 31536000 + 1 }

InitPolicy ==
    /\ now \in PolicyNow
    /\ tz \in TimeZones
    /\ \E y \in PolicyYears, l \in { 0 } \cup { now - a : a \in PolicyAges } :
          args = [ year |-> y, lastRefresh |-> l ]
    /\ Quiet

\* lines 66-67 of the call: the date is read
CallCalcRefreshToday ==
    /\ frame = None
    /\ frame' = [ present     |-> TRUE,
                  lastRefresh |-> args.lastRefresh,
                  today       |-> date_today(now) ]
    /\ UNCHANGED << pc, error, row, station, yearsLeft, futures, awaited, log >>
    /\ UNCHANGED << inventory, tz, rawWrites, force, now, poolVars,
                    responses, diskVars,
                    histVars, faults, callVars >>

\* lines 68-79 of the call: the clock is read again, for the age; the result
\* is kept with the two readings it was computed from
CallCalcRefresh ==
    /\ frame # None
    /\ result = << >>
    /\ result' = << [ value |-> calcRefresh(args.year, args.lastRefresh,
                                            frame.today, now),
                      today |-> frame.today,
                      time  |-> now ] >>
    /\ UNCHANGED << inventory, tz, rawWrites, force, now, procVars, poolVars,
                    responses,
                    diskVars, histVars, faults, args >>

\* the clock moves on while the call is under way
CallCalcRefreshTick == result = << >> /\ Tick(PolicyNow)

NextPolicy ==
    \/ CallCalcRefreshToday
    \/ CallCalcRefresh
    \/ CallCalcRefreshTick

SpecPolicy == InitPolicy /\ [][NextPolicy]_vars

EnumSpan == 6

EnumYears == { None } \cup { Some(y) : y \in 2014..(2014 + EnumSpan) }

InitEnum ==
    /\ now = NewYear2026 - 4 * 3600
    /\ tz = 0
    /\ \E f \in EnumYears, l \in EnumYears : args = Station(71957, f, l)
    /\ Quiet

CallDailyYearsIter ==
    /\ result = << >>
    /\ result' = << dailyYearsIter(args) >>
    /\ UNCHANGED << inventory, tz, rawWrites, force, now, procVars, poolVars,
                    responses,
                    diskVars, histVars, faults, args >>

NextEnum == CallDailyYearsIter

SpecEnum == InitEnum /\ [][NextEnum]_vars

KeySpan == 2

KeyYears == 2024..(2024 + KeySpan)

\* station ids in and out of the same thousand, and ids that are the
\* thousands of others
KeyStationIds == { 7, 71, 999, 1000, 5097, 71957, 71958, 719570 }

KeyUnits ==
    { << Station(id, b, b), y >> :
        id \in KeyStationIds, b \in { None, Some(2024) }, y \in KeyYears }

InitKey ==
    /\ now = NewYear2026 - 4 * 3600
    /\ tz = 0
    /\ \E u \in KeyUnits, v \in KeyUnits : args = << u, v >>
    /\ Quiet

\* lines 113 and 116 for two units
CallFname ==
    /\ result = << >>
    /\ result' = << << fname(args[1][1], args[1][2]),
                       fname(args[2][1], args[2][2]) >> >>
    /\ UNCHANGED << inventory, tz, rawWrites, force, now, procVars, poolVars,
                    responses,
                    diskVars, histVars, faults, args >>

NextKey == CallFname

SpecKey == InitKey /\ [][NextKey]_vars

(***************************************************************************)
(* threadLocal, lines 46-51, and its use at line 57.  The main thread is   *)
(* thread 0, the pool threads are 1..SessionThreads.  In args: storage is  *)
(* threadLocal's dict of each thread (its session, 0 while the thread has  *)
(* none), created counts the Session objects made, and used records the    *)
(* sessions through which each pool thread has issued a request.           *)
(***************************************************************************)
SessionThreads == 4

\* line 51, run by the main thread at import: __init__ makes its session
InitSession ==
    /\ now = NewYear2026 - 4 * 3600
    /\ tz = 0
    /\ args = [ storage |-> [ t \in 0..SessionThreads |->
                                IF t = 0 THEN 1 ELSE 0 ],
                created |-> 1,
                used    |-> [ t \in 1..SessionThreads |-> { } ] ]
    /\ Quiet

\* one Session made at import and handed to every thread
LocalSession_session_shared(storage, created, t) == storage[0]

\* threadLocal.session read in thread t: the session in the thread's own
\* dict; at the thread's first access __init__ (lines 47-49) runs in that
\* thread and makes a new Session
LocalSession_session(storage, created, t) ==
    IF storage[t] # 0 THEN storage[t] ELSE created + 1

\* line 57 in a task run by pool thread t
CallSessionGet ==
    /\ \E t \in 1..SessionThreads :
          LET s == LocalSession_session(args.storage, args.created, t)
          IN  /\ args' = [ storage |-> [ args.storage EXCEPT ![t] = s ],
                           created |-> IF s > args.created
                                       THEN s ELSE args.created,
                           used    |-> [ args.used EXCEPT
                                           ![t] = @ \cup { s } ] ]
              /\ result' = << [ thread |-> t, session |-> s ] >>
    /\ UNCHANGED << inventory, tz, rawWrites, force, now, procVars, poolVars,
                    responses,
                    diskVars, histVars, faults >>

NextSession == CallSessionGet

SpecSession == InitSession /\ [][NextSession]_vars

(***************************************************************************)
(* Properties                                                              *)
(***************************************************************************)
TaskErrors == { "RequestException", "OSError", "sqlite3.Error" }

\* the policy window of a year on the local date day, as the specification
\* words it
PolicyWindow(year, day) ==
    LET thisYear   == YearOfDay(day)
        cutoffYear == YearOfDay(day - 3)
    IN  IF year = thisYear \/ year = cutoffYear THEN 3600
        ELSE IF year = thisYear - 1 THEN 2592000
        ELSE 31536000

\* log entry j is the first check of its unit in the current execution
FirstCheck(j) == \A h \in 1..(j - 1) : log[h].localPath # log[j].localPath

\* the previous execution judged the unit due (no force), and its fetch failed
\* and none for it succeeded
FailedLastRun(k) ==
    /\ \E h \in DOMAIN prevLog :
          /\ prevLog[h].localPath = k
          /\ ~prevLog[h].force
          /\ prevLog[h].submitted
    /\ \E p \in DOMAIN prevTasks :
          prevTasks[p].localPath = k /\ prevTasks[p].state = "failed"
    /\ \A p \in DOMAIN prevTasks :
          prevTasks[p].localPath = k => prevTasks[p].state # "done"

\* C1: the number of getOneFile tasks in flight never exceeds max_workers
C1_BoundedConcurrency == InFlight <= max_workers

\* all max_workers threads are busy while a further submitted unit waits
C1_Witness == InFlight = max_workers /\ work_queue # << >>

\* C2: a failure of getOneFile never aborts update(): update() does not exit
\* with the exception of a task
C2_FailureIsolation == ~(pc = "raised" /\ error \in TaskErrors)

\* C3: a store entry is created or overwritten only by the successful end of a
\* getOneFile for that key, which had written and closed its file; a task
\* that fails leaves the store as it was; no entry is ever deleted
C3_StoreChangesOnlyOnSuccess ==
    [][ /\ DOMAIN stationRefresh \subseteq DOMAIN stationRefresh'
        /\ \A k \in DOMAIN stationRefresh' :
              (k \notin DOMAIN stationRefresh
                 \/ stationRefresh'[k] # stationRefresh[k])
              => \E i \in DOMAIN tasks :
                    /\ tasks[i].localPath = k
                    /\ tasks[i].state = "store"
                    /\ tasks'[i].state = "return"
                    /\ tasks[i].f = "closed"
                    /\ k \in DOMAIN files
                    /\ stationRefresh'[k] = tasks[i].at
        /\ \A i \in DOMAIN tasks :
              (i \in DOMAIN tasks' /\ tasks[i].state # "failed"
                 /\ tasks'[i].state = "failed")
              => stationRefresh' = stationRefresh ]_vars

\* one task failed and its key is still absent, another succeeded and set its
\* entry
C3_Witness ==
    \E i, j \in DOMAIN tasks :
        /\ tasks[i].state = "failed"
        /\ tasks[i].exc \in TaskErrors
        /\ tasks[i].localPath \notin DOMAIN stationRefresh
        /\ tasks[j].state = "done"
        /\ stationRefresh[tasks[j].localPath] = tasks[j].at

\* C4, as claimed: a unit judged due whose fetch failed is judged due again
\* and re-submitted by the next execution without force, at any later time
C4_RetryNextRun ==
    (run > 1 /\ ~force) =>
        \A j \in DOMAIN log :
            (FirstCheck(j) /\ FailedLastRun(log[j].localPath))
            => log[j].submitted

\* C4, amended: ... provided the unit has no store entry, or the policy window
\* of its year at the new check is not longer than at the failed execution's
C4_RetryNextRunSameWindow ==
    (run > 1 /\ ~force) =>
        \A j \in DOMAIN log :
            ( /\ FirstCheck(j)
              /\ FailedLastRun(log[j].localPath)
              /\ \/ ~log[j].present
                 \/ \A h \in DOMAIN prevLog :
                       prevLog[h].localPath = log[j].localPath
                       => PolicyWindow(log[j].year, log[j].today)
                            <= PolicyWindow(log[j].year, prevLog[h].today) )
            => /\ log[j].submitted
               /\ \E i \in DOMAIN tasks : tasks[i].localPath = log[j].localPath

\* a unit with a store entry failed in the previous execution and is submitted
\* again, later
C4_Witness ==
    /\ run > 1
    /\ ~force
    /\ \E j \in DOMAIN log :
          /\ FailedLastRun(log[j].localPath)
          /\ log[j].present
          /\ log[j].submitted
          /\ \E h \in DOMAIN prevLog : log[j].at > prevLog[h].at

\* C5: when update() returns or exits, every submitted task is over and the
\* list of pending futures is empty
C5_CompletionBarrier ==
    pc \in { "returned", "raised" } =>
        /\ futures = << >>
        /\ \A i \in DOMAIN tasks : tasks[i].state \in Finished

\* the successful fetches of the unit at k in the previous execution
FetchedLastRun(k) ==
    { p \in DOMAIN prevTasks :
        prevTasks[p].localPath = k /\ prevTasks[p].state = "done" }

\* C6: of two consecutive executions without force, the second submits no unit
\* fetched successfully by the first, as long as the unit's policy window has
\* not elapsed since the first execution's fetches of it (the times they read
\* for the store)
C6_Idempotence ==
    (run > 1 /\ ~force /\ ~prevForce) =>
        \A j \in DOMAIN log :
            ( /\ FetchedLastRun(log[j].localPath) # { }
              /\ \A p \in FetchedLastRun(log[j].localPath) :
                    log[j].at - prevTasks[p].at
                      <= PolicyWindow(log[j].year, log[j].today) )
            => ~log[j].submitted

\* the second execution, later than the first, skipped a unit the first fetched
C6_Witness ==
    /\ run > 1
    /\ ~force
    /\ ~prevForce
    /\ \E j \in DOMAIN log : \E p \in DOMAIN prevTasks :
          /\ prevTasks[p].localPath = log[j].localPath
          /\ prevTasks[p].state = "done"
          /\ log[j].at > prevTasks[p].at
          /\ ~log[j].submitted

\* C7: calcRefresh is the reference rule: the first matching window decides,
\* due iff the age is strictly greater than it; on 1-3 January the previous
\* year is under the one-hour window
C7_RefreshPolicy ==
    result # << >> =>
        LET r   == result[1]
            age == r.time - args.lastRefresh
        IN  /\ r.value = (age > PolicyWindow(args.year, r.today))
            /\ (age = PolicyWindow(args.year, r.today)) => r.value = FALSE
            /\ ( /\ YearOfDay(r.today) = 2026
                 /\ YearOfDay(r.today - 3) = 2025
                 /\ args.year = 2025 )
                 => r.value = (age > 3600)

\* on 3 January 2026 the year 2025 with an entry 3601 s old is due
C7_Witness ==
    /\ result # << >>
    /\ result[1].value = TRUE
    /\ result[1].today = 20454 + 2
    /\ result[1].time = NewYear2026 + 3 * SecondsPerDay - 1
    /\ args.year = 2025
    /\ result[1].time - args.lastRefresh = 3601

\* C8: calcRefresh is true for every year when lastRefresh = 0, with the date
\* and the time of any policy check, and update() without force submits every
\* enumerated unit whose key is absent
C8_FirstFetchDue ==
    /\ pc = "policy" =>
          \A y \in PolicyYears : calcRefresh(y, 0, frame.today, frame.time)
    /\ \A j \in DOMAIN log :
          (~log[j].force /\ ~log[j].present)
          => /\ log[j].submitted
             /\ \E i \in DOMAIN tasks : tasks[i].localPath = log[j].localPath

\* a unit absent from the store was submitted by an execution without force
C8_Witness ==
    \E j \in DOMAIN log :
        /\ ~log[j].force
        /\ ~log[j].present
        /\ log[j].submitted
        /\ \E i \in DOMAIN tasks : tasks[i].localPath = log[j].localPath

\* the keys of the units of the first n rows, in the order of enumeration
RECURSIVE KeysUpTo(_, _)
KeysUpTo(inv, n) ==
    IF n = 0 THEN << >>
    ELSE KeysUpTo(inv, n - 1) \o
         [ j \in DOMAIN dailyYearsIter(inv[n]).years |->
             fname(inv[n], dailyYearsIter(inv[n]).years[j]) ]

\* C9: with force every enumerated unit is submitted, whatever the store
\* holds: the tasks are the enumerated units, one for one and in order, and
\* once the enumeration is over they are all the units of the inventory
C9_ForceSubmitsAll ==
    force =>
        /\ \A j \in DOMAIN log : log[j].submitted
        /\ Len(tasks) = Len(log)
        /\ \A j \in DOMAIN log :
              /\ tasks[j].localPath = log[j].localPath
              /\ \E r \in DOMAIN inventory :
                    /\ tasks[j].dirname = dirname(inventory[r])
                    /\ tasks[j].localPath = fname(inventory[r], log[j].year)
              /\ tasks[j].url.Year = log[j].year
        /\ (pc \in { "wait", "result", "returned" }
              \/ (pc = "raised" /\ error \in TaskErrors))
             => [ j \in DOMAIN tasks |-> tasks[j].localPath ]
                  = KeysUpTo(inventory, Len(inventory))

\* with force, a unit whose entry is within every window was submitted
C9_Witness ==
    /\ force
    /\ \E j \in DOMAIN log :
          /\ log[j].present
          /\ log[j].at - log[j].lastRefresh <= 3600
          /\ log[j].submitted
          /\ tasks[j].localPath = log[j].localPath

\* C10: dailyYearsIter yields dlyFirstYear..dlyLastYear in ascending order
\* when both are present, and nothing, without error, when either is None
C10_UnitEnumeration ==
    result # << >> =>
        /\ result[1].raised = "None"
        /\ IF args.dlyFirstYear # None /\ args.dlyLastYear # None
           THEN /\ Len(result[1].years)
                     = (IF args.dlyLastYear[1] >= args.dlyFirstYear[1]
                        THEN args.dlyLastYear[1] - args.dlyFirstYear[1] + 1
                        ELSE 0)
                /\ \A j \in DOMAIN result[1].years :
                      result[1].years[j] = args.dlyFirstYear[1] + j - 1
           ELSE result[1].years = << >>

\* C18: localPath depends on (stationId, year) only, has the documented
\* form, and two units get the same localPath exactly when they have the same
\* stationId and year
C18_KeyOneToOne ==
    result # << >> =>
        /\ (result[1][1] = result[1][2])
             <=> ( /\ args[1][1].stationId = args[2][1].stationId
                   /\ args[1][2] = args[2][2] )
        /\ (args[1][1].stationId = 71957 /\ args[1][2] = 2025)
             => result[1][1] = "stations/71/71957/2025.csv.xz"
        /\ (args[1][1].stationId = 999 /\ args[1][2] = 2024)
             => result[1][1] = "stations/0/999/2024.csv.xz"

\* two stations of the same thousand and the same year got different paths,
\* and the same station described with other year bounds got the same path
C18_Witness ==
    /\ result # << >>
    /\ \/ /\ args[1][1].stationId = 71957
          /\ args[2][1].stationId = 71958
          /\ args[1][2] = args[2][2]
          /\ result[1][1] # result[1][2]
       \/ /\ args[1][1].stationId = args[2][1].stationId
          /\ args[1][1] # args[2][1]
          /\ args[1][2] = args[2][2]
          /\ result[1][1] = result[1][2]

\* C13: when the store cannot be opened the process aborts there: no unit is
\* enumerated or submitted, no thread is started and no fetch is issued
C13_StoreOpenFatal ==
    error = "OperationalError" =>
        /\ pc \in { "aborted", "exited" }
        /\ log = << >>
        /\ tasks = << >>
        /\ work_queue = << >>
        /\ futures = << >>
        /\ started = 0
        /\ numThreads = 0

\* the open failed for an inventory that has units to fetch
C13_Witness ==
    /\ pc = "aborted"
    /\ error = "OperationalError"
    /\ UnitsOf(inventory) # { }
    /\ tasks = << >>

\* C11: the units submitted and not yet started never exceed a fixed capacity,
\* here the size of the pool, however many units the inventory holds
C11_Backpressure == Len(work_queue) <= max_workers

\* C12: when update() returns it yields a summary that counts every enumerated
\* unit once as fetched, skipped or failed and lists the keys of the failed
C12_RunReport ==
    pc = "returned" =>
        /\ UpdateReturns # None
        /\ LET report == UpdateReturns[1]
           IN  /\ report.fetched + report.skipped + report.failed = Len(log)
               /\ report.failedKeys =
                      { tasks[i].localPath : i \in { j \in DOMAIN tasks :
                                                      tasks[j].state = "failed" } }

\* the step takes task i from state a to state b
Moves(i, a, b) ==
    /\ i \in DOMAIN tasks'
    /\ tasks[i].state = a
    /\ tasks'[i].state = b

C19_TransportFailurePreserves ==
    [][ \A i \in DOMAIN tasks :
          ( /\ Moves(i, "get", "failed")
            /\ tasks'[i].exc = "RequestException" ) =>
                UNCHANGED << files, stationRefresh >>
      ]_vars

\* the request for a unit mirrored earlier raised: its file and entry remain
C19_Witness ==
    \E i \in DOMAIN tasks :
        /\ tasks[i].state = "failed"
        /\ tasks[i].exc = "RequestException"
        /\ tasks[i].localPath \in DOMAIN files
        /\ files[tasks[i].localPath] = Old
        /\ tasks[i].localPath \in DOMAIN stationRefresh
        /\ stationRefresh[tasks[i].localPath] = Earlier

\* no station id occurs in two rows of the inventory
DistinctStations ==
    \A r, q \in DOMAIN inventory :
        r # q => inventory[r].stationId # inventory[q].stationId

\* when update() has returned and no fetch failed, every enumerated unit has a
\* store entry whose age, at the moment of the unit's policy check, is within
\* the policy window of its year; and a skipped unit had such an entry
\* already when it was checked
FreshAfterCleanRun ==
    ( /\ pc = "returned"
      /\ \A i \in DOMAIN tasks : tasks[i].state = "done" ) =>
        \A j \in DOMAIN log :
            LET key == log[j].localPath
            IN  /\ key \in DOMAIN stationRefresh
                /\ log[j].at - stationRefresh[key]
                      <= PolicyWindow(log[j].year, log[j].today)
                /\ ~log[j].submitted =>
                      /\ ~log[j].force
                      /\ log[j].present
                      /\ log[j].at - log[j].lastRefresh
                            <= PolicyWindow(log[j].year, log[j].today)

\* C16 as stated: for every inventory, after a clean run every enumerated
\* unit has a store entry within its policy window at the unit's check, and
\* a unit was skipped only with such an entry
C16_FreshAfterCleanRun == FreshAfterCleanRun

\* C16 amended: the same, for inventories in which no station id is repeated
C16_FreshAfterCleanRunDistinctStations == DistinctStations => FreshAfterCleanRun

\* a clean run over distinct stations that fetched one unit and skipped
\* another
C16_Witness ==
    /\ DistinctStations
    /\ pc = "returned"
    /\ \A i \in DOMAIN tasks : tasks[i].state = "done"
    /\ \E j, k \in DOMAIN log :
          /\ log[j].submitted
          /\ ~log[j].present
          /\ ~log[k].submitted
          /\ stationRefresh[log[j].localPath] >= log[j].at

\* within one execution no two submitted tasks have the same localPath, so no
\* two tasks in flight write the same file or the same store key
SubmittedOnce ==
    \A i, j \in DOMAIN tasks :
        i # j => /\ tasks[i].localPath # tasks[j].localPath
                 /\ ~( /\ tasks[i].state \in Running
                       /\ tasks[j].state \in Running
                       /\ tasks[i].localPath = tasks[j].localPath )

\* C15 as stated: for every inventory, each localPath is submitted at most
\* once in an execution and no two tasks in flight share a localPath
C15_SubmittedOnce == SubmittedOnce

\* C15 amended: the same, for inventories in which no station id is repeated
C15_SubmittedOnceDistinctStations == DistinctStations => SubmittedOnce

\* units of two stations of an inventory without repeated stations are in
\* flight together
C15_Witness ==
    /\ DistinctStations
    /\ \E i, j \in DOMAIN tasks :
          /\ i # j
          /\ tasks[i].state \in Running
          /\ tasks[j].state \in Running
          /\ tasks[i].dirname # tasks[j].dirname
          /\ tasks[i].url # tasks[j].url

\* C17: every pool thread issues all its requests through one session, which
\* is its own: no other pool thread, nor the main thread, has or uses it
C17_PerWorkerSession ==
    \A t \in 1..SessionThreads :
        /\ Cardinality(args.used[t]) <= 1
        /\ args.used[t] # { } => args.used[t] = { args.storage[t] }
        /\ \A u \in 0..SessionThreads :
              u # t /\ args.storage[t] # 0 => args.storage[u] # args.storage[t]
        /\ \A u \in 1..SessionThreads :
              u # t => args.used[u] \cap args.used[t] = { }

\* two pool threads have issued requests, one of them again just now through
\* the session it had already
C17_Witness ==
    /\ result # << >>
    /\ \E t, u \in 1..SessionThreads :
          /\ t # u
          /\ args.used[t] # { }
          /\ args.used[u] # { }
          /\ result[1].thread = t
          /\ result[1].session < args.created
          /\ args.used[t] = { result[1].session }

\* C20: under fair scheduling an execution of update() comes to its end with
\* every submitted task started and finished and the list of pending futures
\* emptied by the wait loop
C20_Termination ==
    (pc = "station" /\ row = 1) ~>
        /\ pc \in { "returned", "raised" }
        /\ futures = << >>
        /\ \A i \in DOMAIN tasks : tasks[i].state \in Finished

====
